---- MODULE Spec2Model ----
(***************************************************************************)
(* ankerl::unordered_dense::detail::table  (include/ankerl/unordered_dense.h) *)
(*                                                                         *)
(* A robin-hood hash index (m_buckets) over a dense value vector           *)
(* (m_values).  The 64 bit hash word is scaled down to HashBits bits: the  *)
(* low 8 bits are the fingerprint, the top bits select the home bucket,    *)
(* exactly as in the source (INITIAL_SHIFTS = width - 3).                  *)
(* max_load_factor (a float) is the exact fraction <<num, den>>.           *)
(***************************************************************************)
EXTENDS Integers, Sequences, FiniteSets, TLC

\* ------------------------------------------------------------------ bounds
NKeys == 3
NWideKeys == 4
NBulkKeys == 9
NVals == 1
NPairKeys == 2
HashBits == 14
MaxCount == 4
MaxGrow == 3
MaxLen == 3
IdxBits == 3

Keys == 1..NKeys
PairKeys == 1..NPairKeys
WideKeys == 1..NWideKeys
BulkKeys == 1..NBulkKeys
AllKeys == Keys \cup WideKeys \cup BulkKeys
\* mapped values; 0 is the value-initialised mapped_type of operator[]
Vals == 0..NVals
Counts == 0..MaxCount
\* the default 0.8f and a small factor a caller may set
DefaultLoadFactor == <<4, 5>>
LoadFactors == {DefaultLoadFactor, <<1, 8>>}

\* ------------------------------------------------------- program constants
BUCKET_DIST_INC == 256
BUCKET_FINGERPRINT_MASK == BUCKET_DIST_INC - 1
INITIAL_SHIFTS == HashBits - 3
\* 0x9E3779B97F4A7C15 cut to its top HashBits bits (0x9E37 are its top 16)
GOLDEN == 40503 \div (2 ^ (16 - HashBits))
HashWord == 2 ^ HashBits
\* uint32_t cut to IdxBits bits: value_idx, m_max_bucket_capacity, loop counters
IdxWord == 2 ^ IdxBits
\* failed grows are followed no further than MaxGrow halvings of the shift amount
MinShifts == INITIAL_SHIFTS - MaxGrow

\* ----------------------------------------------------------------- wyhash
RECURSIVE BitXor(_, _)
BitXor(a, b) ==
    IF a = 0 THEN b
    ELSE IF b = 0 THEN a
    ELSE 2 * BitXor(a \div 2, b \div 2) + ((a + b) % 2)

\* mum: the double-width product, low word to a, high word to b
mum(a, b) == <<(a * b) % HashWord, (a * b) \div HashWord>>

mix(a, b) == BitXor(mum(a, b)[1], mum(a, b)[2])

\* ------------------------------------------------------- user-supplied Hash
\* A hash that declares is_avalanching and collides on purpose: keys 1 and 2
\* have the same hash word, keys 3 and 4 the same home bucket (the last one, so
\* that probing wraps) with a larger and a smaller fingerprint, further keys
\* the bucket before the last.
TopOnes == 2 ^ (HashBits - 8) - 1
CollidingHash ==
    [k \in AllKeys |->
        CASE k \in {1, 2} -> TopOnes * 256 + 17
          [] k = 3 -> TopOnes * 256 + 34
          [] k = 4 -> TopOnes * 256 + 5
          [] OTHER -> (TopOnes - 1) * 256 + 17 + k]
\* A hash that is not avalanching, so that mixed_hash applies mix(): mix sends
\* the words of keys 1 and 3 to the last bucket and the word of key 2 to
\* bucket 0, where the wrapped entries of the last bucket displace it.
PlainHash ==
    [k \in AllKeys |->
        CASE k = 1 -> 144
          [] k = 2 -> 89
          [] k = 3 -> 233
          [] OTHER -> k]
Hashes ==
    { [is_avalanching |-> TRUE, h |-> CollidingHash],
      [is_avalanching |-> FALSE, h |-> PlainHash] }
\* mix() of every word the non-avalanching hash returns, evaluated once
MixedWord == [a \in {PlainHash[k] : k \in AllKeys} |-> mix(a, GOLDEN)]

\* ------------------------------------------------------------------ state
VARIABLES
    m_values,               \* sequence of <<key, mapped>>; value_idx i is m_values[i+1]
    m_buckets,              \* [0..n-1 -> Bucket]; the empty function is nullptr
    m_max_bucket_capacity,
    m_max_load_factor,
    m_shifts,
    m_hash,                 \* the Hash given to the constructor
    fault,                  \* "none", or how the process ended: "segv", "hang"
    last,                   \* the last call: its arguments and what it returned
    abs,                    \* the key -> mapped map the calls so far define
    other                   \* a second table, the argument of copy, move and operator==

vars == <<m_values, m_buckets, m_max_bucket_capacity, m_max_load_factor,
          m_shifts, m_hash, fault, last, abs, other>>

Bucket(daf, idx) == [dist_and_fingerprint |-> daf, value_idx |-> idx]
EmptyBucket == Bucket(0, 0)
NullBuckets == [i \in {} |-> EmptyBucket]

\* *this as one record
Self ==
    [m_values |-> m_values, m_buckets |-> m_buckets,
     m_max_bucket_capacity |-> m_max_bucket_capacity,
     m_max_load_factor |-> m_max_load_factor, m_shifts |-> m_shifts,
     m_hash |-> m_hash, fault |-> fault]

\* ---------------------------------------------------------------- helpers
size(t) == Len(t.m_values)
empty(t) == Len(t.m_values) = 0
bucket_count(t) == Cardinality(DOMAIN t.m_buckets)
get_key(vt) == vt[1]
\* m_values[i] of the source
ValueAt(t, i) == t.m_values[i + 1]
\* static_cast<uint64_t>(n * max_load_factor())
FloorMul(n, ml) == (n * ml[1]) \div ml[2]

next(t, bucket) == IF bucket + 1 = bucket_count(t) THEN 0 ELSE bucket + 1

mixed_hash(t, key) ==
    IF t.m_hash.is_avalanching THEN t.m_hash.h[key] ELSE MixedWord[t.m_hash.h[key]]

dist_and_fingerprint_from_hash(hash) == BUCKET_DIST_INC + (hash % (BUCKET_FINGERPRINT_MASK + 1))

bucket_from_hash(t, hash) == hash \div (2 ^ t.m_shifts)

\* ------------------------------------------------------- probing engine
RECURSIVE next_while_less_loop(_, _, _)
next_while_less_loop(t, dist_and_fingerprint, bucket) ==
    IF dist_and_fingerprint < t.m_buckets[bucket].dist_and_fingerprint
    THEN next_while_less_loop(t, dist_and_fingerprint + BUCKET_DIST_INC, next(t, bucket))
    ELSE [dist_and_fingerprint |-> dist_and_fingerprint, bucket |-> bucket]

\* next_while_less without its loop: the home bucket and the word for it
next_while_less_home(t, key) ==
    [dist_and_fingerprint |-> dist_and_fingerprint_from_hash(mixed_hash(t, key)),
     bucket |-> bucket_from_hash(t, mixed_hash(t, key))]

\* requires allocated buckets: the caller decides what a null m_buckets_start does
next_while_less(t, key) ==
    next_while_less_loop(t, dist_and_fingerprint_from_hash(mixed_hash(t, key)),
                         bucket_from_hash(t, mixed_hash(t, key)))

\* The loop ends at the first empty slot.  After bucket_count steps without one
\* there is none and the loop of the source never ends: fault "hang".
RECURSIVE place_and_shift_up_loop(_, _, _, _)
place_and_shift_up_loop(t, bucket, place, steps) ==
    IF t.m_buckets[place].dist_and_fingerprint = 0
    THEN [t EXCEPT !.m_buckets[place] = bucket]
    ELSE IF steps >= bucket_count(t)
    THEN [t EXCEPT !.fault = "hang"]
    ELSE place_and_shift_up_loop(
            [t EXCEPT !.m_buckets[place] = bucket],
            Bucket(t.m_buckets[place].dist_and_fingerprint + BUCKET_DIST_INC,
                   t.m_buckets[place].value_idx),
            next(t, place), steps + 1)

\* place_and_shift_up that writes the slot and drops what it held
place_and_shift_up_overwrite(t, bucket, place) == [t EXCEPT !.m_buckets[place] = bucket]

place_and_shift_up(t, bucket, place) == place_and_shift_up_loop(t, bucket, place, 0)

calc_num_buckets(shifts) == 2 ^ (HashBits - shifts)

RECURSIVE calc_shifts_loop(_, _, _)
calc_shifts_loop(t, s, shifts) ==
    IF FloorMul(calc_num_buckets(shifts), t.m_max_load_factor) < s
    THEN calc_shifts_loop(t, s, shifts - 1)
    ELSE shifts

calc_shifts_for_size(t, s) == calc_shifts_loop(t, s, INITIAL_SHIFTS)

is_full(t) == size(t) >= t.m_max_bucket_capacity

deallocate_buckets(t) ==
    [t EXCEPT !.m_buckets = NullBuckets, !.m_max_bucket_capacity = 0]

clear_buckets(t) ==
    [t EXCEPT !.m_buckets = [i \in DOMAIN t.m_buckets |-> EmptyBucket]]

allocate_and_clear_buckets(t) ==
    clear_buckets(
        [t EXCEPT !.m_buckets = [i \in 0..(2 ^ (HashBits - t.m_shifts) - 1) |-> EmptyBucket],
                  !.m_max_bucket_capacity =
                      FloorMul(2 ^ (HashBits - t.m_shifts), t.m_max_load_factor)])

RECURSIVE fill_buckets_loop(_, _)
fill_buckets_loop(t, value_idx) ==
    IF value_idx >= size(t) \/ t.fault # "none"
    THEN t
    ELSE fill_buckets_loop(
            place_and_shift_up(
                t,
                Bucket(next_while_less(t, get_key(ValueAt(t, value_idx))).dist_and_fingerprint,
                       value_idx),
                next_while_less(t, get_key(ValueAt(t, value_idx))).bucket),
            value_idx + 1)

fill_buckets_from_values(t) == fill_buckets_loop(t, 0)

increase_size(t) ==
    fill_buckets_from_values(
        allocate_and_clear_buckets(
            deallocate_buckets([t EXCEPT !.m_shifts = t.m_shifts - 1])))

\* ------------------------------------------------------------------ erase
\* an erase that leaves a marker in the slot and moves nothing
do_erase_shift_tombstone(t, bucket, next_bucket) ==
    [t EXCEPT !.m_buckets[bucket] = Bucket(0, 1)]

\* the backward shift that copies each slot back with its word as it is
RECURSIVE do_erase_shift_same_word(_, _, _)
do_erase_shift_same_word(t, bucket, next_bucket) ==
    IF t.m_buckets[next_bucket].dist_and_fingerprint >= BUCKET_DIST_INC * 2
    THEN do_erase_shift_same_word(
            [t EXCEPT !.m_buckets[bucket] = t.m_buckets[next_bucket]],
            next_bucket, next(t, next_bucket))
    ELSE [t EXCEPT !.m_buckets[bucket] = EmptyBucket]

\* shift down until either empty or an element with correct spot is found
RECURSIVE do_erase_shift(_, _, _)
do_erase_shift(t, bucket, next_bucket) ==
    IF t.m_buckets[next_bucket].dist_and_fingerprint >= BUCKET_DIST_INC * 2
    THEN do_erase_shift(
            [t EXCEPT !.m_buckets[bucket] =
                Bucket(t.m_buckets[next_bucket].dist_and_fingerprint - BUCKET_DIST_INC,
                       t.m_buckets[next_bucket].value_idx)],
            next_bucket, next(t, next_bucket))
    ELSE [t EXCEPT !.m_buckets[bucket] = EmptyBucket]

\* the slot whose value_idx is idx, walking from bucket; no such slot: the
\* walk of the source never ends
RECURSIVE find_value_idx(_, _, _, _)
find_value_idx(t, idx, bucket, steps) ==
    IF t.m_buckets[bucket].value_idx = idx THEN bucket
    ELSE IF steps >= bucket_count(t) THEN -1
    ELSE find_value_idx(t, idx, next(t, bucket), steps + 1)

\* do_erase's update of m_values without the re-pointing walk
do_erase_values_stale(t, value_idx_to_remove) ==
    IF value_idx_to_remove # size(t) - 1
    THEN [t EXCEPT !.m_values =
             SubSeq([t.m_values EXCEPT ![value_idx_to_remove + 1] = t.m_values[size(t)]],
                    1, size(t) - 1)]
    ELSE [t EXCEPT !.m_values = SubSeq(t.m_values, 1, size(t) - 1)]

\* update m_values: the last entry moves into the hole and its slot is re-pointed
do_erase_values(t, value_idx_to_remove) ==
    IF value_idx_to_remove # size(t) - 1
    THEN LET moved == [t EXCEPT !.m_values[value_idx_to_remove + 1] = t.m_values[size(t)]]
             bucket == find_value_idx(moved, size(t) - 1,
                          bucket_from_hash(moved, mixed_hash(moved,
                              get_key(ValueAt(moved, value_idx_to_remove)))), 0)
         IN IF bucket = -1
            THEN [moved EXCEPT !.fault = "hang"]
            ELSE [moved EXCEPT !.m_buckets[bucket].value_idx = value_idx_to_remove,
                               !.m_values = SubSeq(moved.m_values, 1, size(t) - 1)]
    ELSE [t EXCEPT !.m_values = SubSeq(t.m_values, 1, size(t) - 1)]

do_erase(t, bucket) ==
    do_erase_values(do_erase_shift(t, bucket, next(t, bucket)),
                    t.m_buckets[bucket].value_idx)

do_erase_key_probe(t, key) ==
    LET RECURSIVE walk(_, _)
        walk(dist_and_fingerprint, bucket) ==
            IF dist_and_fingerprint = t.m_buckets[bucket].dist_and_fingerprint
               /\ get_key(ValueAt(t, t.m_buckets[bucket].value_idx)) # key
            THEN walk(dist_and_fingerprint + BUCKET_DIST_INC, next(t, bucket))
            ELSE [dist_and_fingerprint |-> dist_and_fingerprint, bucket |-> bucket]
    IN walk(next_while_less(t, key).dist_and_fingerprint, next_while_less(t, key).bucket)

\* requires allocated buckets (see EraseKey for a null m_buckets_start)
do_erase_key(t, key) ==
    LET p == do_erase_key_probe(t, key)
    IN IF p.dist_and_fingerprint # t.m_buckets[p.bucket].dist_and_fingerprint
       THEN [t |-> t, ret |-> 0]
       ELSE [t |-> do_erase(t, p.bucket), ret |-> 1]

\* erase(iterator): it is the position it - cbegin() of a valid iterator
erase_iterator(t, it) ==
    LET bucket == find_value_idx(t, it,
                      bucket_from_hash(t, mixed_hash(t, get_key(ValueAt(t, it)))), 0)
    IN IF bucket = -1
       THEN [t |-> [t EXCEPT !.fault = "hang"], ret |-> it]
       ELSE [t |-> do_erase(t, bucket), ret |-> it]

\* erase(first, last), first pass: remove elements from left to right, which
\* moves elements from the end back
RECURSIVE erase_range_forward(_, _, _)
erase_range_forward(t, first, mid) ==
    IF first # mid /\ t.fault = "none"
    THEN erase_range_forward(erase_iterator(t, first).t, first + 1, mid)
    ELSE t

\* second pass: remove the last element until all done
RECURSIVE erase_range_backward(_, _, _)
erase_range_backward(t, last_, mid) ==
    IF last_ # mid /\ t.fault = "none"
    THEN erase_range_backward(erase_iterator(t, last_ - 1).t, last_ - 1, mid)
    ELSE t

\* erase(first, last) up to the closing brace of its body; first and last_ are
\* the positions of the two iterators
erase_range(t, first, last_) ==
    LET first_to_last == last_ - first
        last_to_end == size(t) - last_
        mid == first + (IF first_to_last < last_to_end THEN first_to_last ELSE last_to_end)
    IN erase_range_backward(erase_range_forward(t, first, mid), last_, mid)

\* std::erase_if(map, pred): going back to front because erase() invalidates
\* the end iterator.  pred is the set of keys whose entries satisfy the
\* predicate; evaluated lists the keys pred was called on, in the order called.
RECURSIVE erase_if_loop(_, _, _, _)
erase_if_loop(t, back_it, pred, evaluated) ==
    IF back_it = 0 \/ t.fault # "none"
    THEN [t |-> t, evaluated |-> evaluated]
    ELSE IF get_key(ValueAt(t, back_it - 1)) \in pred
    THEN erase_if_loop(erase_iterator(t, back_it - 1).t, back_it - 1, pred,
                       Append(evaluated, get_key(ValueAt(t, back_it - 1))))
    ELSE erase_if_loop(t, back_it - 1, pred,
                       Append(evaluated, get_key(ValueAt(t, back_it - 1))))

\* return map.size() - old_size; in size_t, which has the width of the hash word
erase_if(t, pred) ==
    LET old_size == size(t)
        r == erase_if_loop(t, size(t), pred, <<>>)
    IN [t |-> r.t, evaluated |-> r.evaluated,
        ret |-> (size(r.t) + HashWord - old_size) % HashWord]

\* ----------------------------------------------------------------- insert
\* The probe shared by emplace and do_try_emplace:
\*   while (dist_and_fingerprint <= bucket->dist_and_fingerprint) { if equal: hit; advance }
\* found: the slot of the equal key; otherwise where to place and with which word.
\* the insert probe with "while (dist_and_fingerprint < bucket->dist_and_fingerprint)":
\* a slot holding the sought word is never compared
RECURSIVE insert_probe_strict(_, _, _, _)
insert_probe_strict(t, key, dist_and_fingerprint, bucket) ==
    IF dist_and_fingerprint < t.m_buckets[bucket].dist_and_fingerprint
    THEN insert_probe_strict(t, key, dist_and_fingerprint + BUCKET_DIST_INC, next(t, bucket))
    ELSE [found |-> FALSE, dist_and_fingerprint |-> dist_and_fingerprint, bucket |-> bucket]

RECURSIVE insert_probe(_, _, _, _)
insert_probe(t, key, dist_and_fingerprint, bucket) ==
    IF dist_and_fingerprint <= t.m_buckets[bucket].dist_and_fingerprint
    THEN IF dist_and_fingerprint = t.m_buckets[bucket].dist_and_fingerprint
            /\ get_key(ValueAt(t, t.m_buckets[bucket].value_idx)) = key
         THEN [found |-> TRUE, dist_and_fingerprint |-> dist_and_fingerprint, bucket |-> bucket]
         ELSE insert_probe(t, key, dist_and_fingerprint + BUCKET_DIST_INC, next(t, bucket))
    ELSE [found |-> FALSE, dist_and_fingerprint |-> dist_and_fingerprint, bucket |-> bucket]

grow_if_full(t) == IF is_full(t) THEN increase_size(t) ELSE t

\* emplace without the pop_back on a duplicate
emplace_keep_back(t0, key, mapped) ==
    LET t1 == grow_if_full(t0)
        t2 == [t1 EXCEPT !.m_values = Append(t1.m_values, <<key, mapped>>)]
        p == insert_probe(t2, key,
                 dist_and_fingerprint_from_hash(mixed_hash(t2, key)),
                 bucket_from_hash(t2, mixed_hash(t2, key)))
    IN IF p.found
       THEN [t |-> t2, ret |-> t2.m_buckets[p.bucket].value_idx, inserted |-> FALSE]
       ELSE [t |-> place_and_shift_up(t2, Bucket(p.dist_and_fingerprint, size(t2) - 1),
                                      p.bucket),
             ret |-> size(t2) - 1, inserted |-> TRUE]

\* ret is the position of the returned iterator, inserted the bool of the pair
emplace(t0, key, mapped) ==
    LET t1 == grow_if_full(t0)
    IN IF t1.fault # "none"
       THEN [t |-> t1, ret |-> 0, inserted |-> FALSE]
       ELSE
       LET \* first emplace the object back. If the key is already there, pop it.
           t2 == [t1 EXCEPT !.m_values = Append(t1.m_values, <<key, mapped>>)]
           val == t2.m_values[Len(t2.m_values)]
           p == insert_probe(t2, get_key(val),
                    dist_and_fingerprint_from_hash(mixed_hash(t2, get_key(val))),
                    bucket_from_hash(t2, mixed_hash(t2, get_key(val))))
       IN IF p.found
          THEN [t |-> [t2 EXCEPT !.m_values = SubSeq(t2.m_values, 1, Len(t2.m_values) - 1)],
                ret |-> t2.m_buckets[p.bucket].value_idx, inserted |-> FALSE]
          ELSE [t |-> place_and_shift_up(t2, Bucket(p.dist_and_fingerprint, size(t2) - 1),
                                         p.bucket),
                ret |-> size(t2) - 1, inserted |-> TRUE]

\* try_emplace that assigns the mapped value of a key it meets
do_try_emplace_overwrite(t0, key, mapped) ==
    IF emplace(t0, key, mapped).inserted
    THEN emplace(t0, key, mapped)
    ELSE [emplace(t0, key, mapped) EXCEPT
             !.t.m_values[emplace(t0, key, mapped).ret + 1][2] = mapped]

do_try_emplace(t0, key, mapped) ==
    LET t1 == grow_if_full(t0)
    IN IF t1.fault # "none"
       THEN [t |-> t1, ret |-> 0, inserted |-> FALSE]
       ELSE
       LET p == insert_probe(t1, key,
                    dist_and_fingerprint_from_hash(mixed_hash(t1, key)),
                    bucket_from_hash(t1, mixed_hash(t1, key)))
           t2 == [t1 EXCEPT !.m_values = Append(t1.m_values, <<key, mapped>>)]
       IN IF p.found
          THEN [t |-> t1, ret |-> t1.m_buckets[p.bucket].value_idx, inserted |-> FALSE]
          ELSE [t |-> place_and_shift_up(t2, Bucket(p.dist_and_fingerprint, size(t2) - 1),
                                         p.bucket),
                ret |-> size(t2) - 1, inserted |-> TRUE]

\* insert_or_assign without the assignment on a duplicate
do_insert_or_assign_no_assign(t0, key, mapped) == do_try_emplace(t0, key, mapped)

do_insert_or_assign(t0, key, mapped) ==
    LET it_isinserted == do_try_emplace(t0, key, mapped)
    IN IF ~it_isinserted.inserted /\ it_isinserted.t.fault = "none"
       THEN [it_isinserted EXCEPT !.t.m_values[it_isinserted.ret + 1][2] = mapped]
       ELSE it_isinserted

\* ------------------------------------------------------------------- find
\* do_find's loop with "while (dist_and_fingerprint < bucket->dist_and_fingerprint)"
RECURSIVE do_find_loop_strict(_, _, _, _)
do_find_loop_strict(t, key, dist_and_fingerprint, bucket) ==
    IF dist_and_fingerprint = t.m_buckets[bucket].dist_and_fingerprint
       /\ get_key(ValueAt(t, t.m_buckets[bucket].value_idx)) = key
    THEN t.m_buckets[bucket].value_idx
    ELSE IF dist_and_fingerprint + BUCKET_DIST_INC
              < t.m_buckets[next(t, bucket)].dist_and_fingerprint
    THEN do_find_loop_strict(t, key, dist_and_fingerprint + BUCKET_DIST_INC, next(t, bucket))
    ELSE size(t)

RECURSIVE do_find_loop(_, _, _, _)
do_find_loop(t, key, dist_and_fingerprint, bucket) ==
    IF dist_and_fingerprint = t.m_buckets[bucket].dist_and_fingerprint
       /\ get_key(ValueAt(t, t.m_buckets[bucket].value_idx)) = key
    THEN t.m_buckets[bucket].value_idx
    ELSE IF dist_and_fingerprint + BUCKET_DIST_INC
              <= t.m_buckets[next(t, bucket)].dist_and_fingerprint
    THEN do_find_loop(t, key, dist_and_fingerprint + BUCKET_DIST_INC, next(t, bucket))
    ELSE size(t)

\* the position of the returned iterator; size(t) is end()
do_find(t, key) ==
    IF empty(t) THEN size(t)
    ELSE
    LET d1 == dist_and_fingerprint_from_hash(mixed_hash(t, key))
        b1 == bucket_from_hash(t, mixed_hash(t, key))
        d2 == d1 + BUCKET_DIST_INC
        b2 == next(t, b1)
        d3 == d2 + BUCKET_DIST_INC
        b3 == next(t, b2)
    IN \* unrolled loop. *Always* check a few directly, then enter the loop.
       IF d1 = t.m_buckets[b1].dist_and_fingerprint
          /\ get_key(ValueAt(t, t.m_buckets[b1].value_idx)) = key
       THEN t.m_buckets[b1].value_idx
       ELSE IF d2 = t.m_buckets[b2].dist_and_fingerprint
               /\ get_key(ValueAt(t, t.m_buckets[b2].value_idx)) = key
       THEN t.m_buckets[b2].value_idx
       ELSE do_find_loop(t, key, d3, b3)

\* at(key) that inserts a value-initialised mapped value on a miss, as operator[] does
at_inserting(t, key) ==
    [t |-> do_try_emplace(t, key, 0).t,
     mapped |-> ValueAt(do_try_emplace(t, key, 0).t, do_try_emplace(t, key, 0).ret)[2],
     error |-> "none"]

\* at(key): the mapped value found, or throw std::out_of_range
at(t, key) ==
    LET it == do_find(t, key)
    IN IF size(t) # it
       THEN [t |-> t, mapped |-> ValueAt(t, it)[2], error |-> "none"]
       ELSE [t |-> t, mapped |-> 0, error |-> "out_of_range"]

\* ------------------------------------------------- the width of uint32_t
\* The members and locals the source declares uint32_t, cut to IdxBits bits;
\* m_values.size() is a size_t and keeps its value.
\* m_max_bucket_capacity = static_cast<uint64_t>(num_buckets * max_load_factor())
allocate_and_clear_buckets_narrow(t) ==
    [allocate_and_clear_buckets(t) EXCEPT
        !.m_max_bucket_capacity = allocate_and_clear_buckets(t).m_max_bucket_capacity % IdxWord]

\* for (uint32_t value_idx = 0, end_idx = m_values.size(); value_idx < end_idx; ++value_idx)
RECURSIVE fill_buckets_loop_narrow(_, _, _)
fill_buckets_loop_narrow(t, value_idx, end_idx) ==
    IF value_idx >= end_idx \/ t.fault # "none"
    THEN t
    ELSE fill_buckets_loop_narrow(
            place_and_shift_up(
                t,
                Bucket(next_while_less(t, get_key(ValueAt(t, value_idx))).dist_and_fingerprint,
                       value_idx),
                next_while_less(t, get_key(ValueAt(t, value_idx))).bucket),
            value_idx + 1, end_idx)

fill_buckets_from_values_narrow(t) == fill_buckets_loop_narrow(t, 0, size(t) % IdxWord)

increase_size_narrow(t) ==
    fill_buckets_from_values_narrow(
        allocate_and_clear_buckets_narrow(
            deallocate_buckets([t EXCEPT !.m_shifts = t.m_shifts - 1])))

\* emplace with uint32_t value_idx = static_cast<uint32_t>(m_values.size()) - 1;
\* the source compares m_values.size() with no bound before emplace_back
emplace_narrow(t0, key, mapped) ==
    LET t1 == IF is_full(t0) THEN increase_size_narrow(t0) ELSE t0
    IN IF t1.fault # "none"
       THEN [t |-> t1, ret |-> 0, inserted |-> FALSE]
       ELSE
       LET t2 == [t1 EXCEPT !.m_values = Append(t1.m_values, <<key, mapped>>)]
           val == t2.m_values[Len(t2.m_values)]
           p == insert_probe(t2, get_key(val),
                    dist_and_fingerprint_from_hash(mixed_hash(t2, get_key(val))),
                    bucket_from_hash(t2, mixed_hash(t2, get_key(val))))
           value_idx == ((size(t2) % IdxWord) + IdxWord - 1) % IdxWord
       IN IF p.found
          THEN [t |-> [t2 EXCEPT !.m_values = SubSeq(t2.m_values, 1, Len(t2.m_values) - 1)],
                ret |-> t2.m_buckets[p.bucket].value_idx, inserted |-> FALSE]
          ELSE [t |-> place_and_shift_up(t2, Bucket(p.dist_and_fingerprint, value_idx),
                                         p.bucket),
                ret |-> value_idx, inserted |-> TRUE]

\* ------------------------------------------------- throwing hash / equality
\* emplace up to the call of mixed_hash: grow when full, then emplace_back
emplace_back_done(t0, key, mapped) ==
    [grow_if_full(t0) EXCEPT !.m_values = Append(grow_if_full(t0).m_values, <<key, mapped>>)]

\* the probe loop of emplace reaches a slot whose word equals the probe's, so
\* that m_equal is called
RECURSIVE probe_calls_equal(_, _, _)
probe_calls_equal(t, dist_and_fingerprint, bucket) ==
    IF dist_and_fingerprint <= t.m_buckets[bucket].dist_and_fingerprint
    THEN \/ dist_and_fingerprint = t.m_buckets[bucket].dist_and_fingerprint
         \/ probe_calls_equal(t, dist_and_fingerprint + BUCKET_DIST_INC, next(t, bucket))
    ELSE FALSE

\* ------------------------------------------------------ allocation failure
\* increase_size() when BucketAllocTraits::allocate throws std::bad_alloc:
\* --m_shifts and deallocate_buckets() have run, nothing after them has
increase_size_bad_alloc(t) ==
    deallocate_buckets([t EXCEPT !.m_shifts = t.m_shifts - 1])

\* rehash(count) / reserve(capa) when the allocation throws: m_shifts is
\* assigned and the old array given back before allocate_and_clear_buckets()
rebuild_bad_alloc(t, shifts) ==
    deallocate_buckets([t EXCEPT !.m_shifts = shifts])

\* ------------------------------------------------------- copy and compare
\* init_from_values without fill_buckets_from_values()
init_from_values_unfilled(t) ==
    IF ~empty(t)
    THEN allocate_and_clear_buckets([t EXCEPT !.m_shifts = calc_shifts_for_size(t, size(t))])
    ELSE t

\* assumes m_values has data, m_buckets_start=m_buckets_end=nullptr, m_shifts is INITIAL_SHIFTS
init_from_values(t) ==
    IF ~empty(t)
    THEN fill_buckets_from_values(
            allocate_and_clear_buckets(
                [t EXCEPT !.m_shifts = calc_shifts_for_size(t, size(t))]))
    ELSE t

\* table(table const& other): the members not named in the initialiser list
\* take their default member initialisers
copy_construct(o) ==
    init_from_values(
        [m_values |-> o.m_values, m_buckets |-> NullBuckets, m_max_bucket_capacity |-> 0,
         m_max_load_factor |-> o.m_max_load_factor, m_shifts |-> INITIAL_SHIFTS,
         m_hash |-> o.m_hash, fault |-> "none"])

\* operator=(table const& other) with &other != this
copy_assign(t, o) ==
    init_from_values(
        [deallocate_buckets(t) EXCEPT !.m_values = o.m_values,
                                      !.m_max_load_factor = o.m_max_load_factor,
                                      !.m_hash = o.m_hash,
                                      !.m_shifts = INITIAL_SHIFTS])

\* ------------------------------------------------------------------- move
\* o after its vector was moved out and its m_buckets_start set to nullptr;
\* m_max_bucket_capacity and m_shifts keep their values
moved_from(o) == [o EXCEPT !.m_values = <<>>, !.m_buckets = NullBuckets]

\* table(table&& other): d is the new table, s is other afterwards
move_construct(o) ==
    [d |-> [m_values |-> o.m_values, m_buckets |-> o.m_buckets,
            m_max_bucket_capacity |-> o.m_max_bucket_capacity,
            m_max_load_factor |-> o.m_max_load_factor, m_shifts |-> o.m_shifts,
            m_hash |-> o.m_hash, fault |-> "none"],
     s |-> moved_from(o)]

\* operator=(table&&) that leaves m_shifts of the target as it was
move_assign_keep_shifts(t, o) ==
    [d |-> [deallocate_buckets(t) EXCEPT !.m_values = o.m_values,
                                         !.m_buckets = o.m_buckets,
                                         !.m_max_bucket_capacity = o.m_max_bucket_capacity,
                                         !.m_max_load_factor = o.m_max_load_factor,
                                         !.m_hash = o.m_hash],
     s |-> moved_from(o)]

\* operator=(table&& other) with &other != this: d is *this, s is other afterwards
move_assign(t, o) ==
    [d |-> [deallocate_buckets(t) EXCEPT !.m_values = o.m_values,
                                         !.m_buckets = o.m_buckets,
                                         !.m_max_bucket_capacity = o.m_max_bucket_capacity,
                                         !.m_max_load_factor = o.m_max_load_factor,
                                         !.m_hash = o.m_hash,
                                         !.m_shifts = o.m_shifts],
     s |-> moved_from(o)]

\* m_buckets_start is nullptr while m_buckets_end still points behind an array
\* the table has given away.  Only a move leaves that pair: it copies
\* m_buckets_end and m_max_bucket_capacity and sets other.m_buckets_start alone
\* to nullptr, whereas the constructor and deallocate_buckets() set both
\* pointers to nullptr and the capacity to 0.
m_buckets_end_stale(t) == bucket_count(t) = 0 /\ t.m_max_bucket_capacity > 0

\* BucketAllocTraits::deallocate(bucket_alloc, m_buckets_start, m_buckets_end - m_buckets_start)
\* as ~table() and deallocate_buckets() call it:
\*   "array": the start of the table's array and its bucket count
\*   "null":  nullptr and 0
\*   "stale": nullptr and m_buckets_end - nullptr, the count of no array
deallocate_call(t) ==
    IF bucket_count(t) > 0 THEN "array"
    ELSE IF m_buckets_end_stale(t) THEN "stale"
    ELSE "null"

\* swap(other): std::swap(other, *this), that is
\*   table tmp(std::move(other)); other = std::move(*this); *this = std::move(tmp);
\* and the destructor of tmp.  a is *this, b is other.
swap(a, b) ==
    LET tmp1 == move_construct(b).d
        b1 == move_construct(b).s
        b2 == move_assign(b1, a).d
        a1 == move_assign(b1, a).s
        a2 == move_assign(a1, tmp1).d
        tmp2 == move_assign(a1, tmp1).s
    IN [a |-> a2, b |-> b2,
        freed |-> <<deallocate_call(b1), deallocate_call(a1), deallocate_call(tmp2)>>]

\* operator== of two sets: only check that the key is here
operator_eq_keys(a, b) ==
    /\ size(a) = size(b)
    /\ \A i \in 0..(size(b) - 1) : do_find(a, get_key(ValueAt(b, i))) # size(a)

\* the loop of operator== over the entries of b, from position i on
RECURSIVE operator_eq_loop(_, _, _)
operator_eq_loop(a, b, i) ==
    IF i = size(b) THEN TRUE
    ELSE LET it == do_find(a, get_key(ValueAt(b, i)))
         IN IF it = size(a) \/ ValueAt(b, i)[2] # ValueAt(a, it)[2]
            THEN FALSE
            ELSE operator_eq_loop(a, b, i + 1)

\* operator==(a, b) of two distinct objects (&a == &b returns true at once)
operator_eq(a, b) ==
    IF size(a) # size(b) THEN FALSE ELSE operator_eq_loop(a, b, 0)

\* ------------------------------------------------- capacity and hash policy
\* clear() without clear_buckets()
clear_values_only(t) == [t EXCEPT !.m_values = <<>>]

\* memset over [m_buckets_start, m_buckets_end): nothing to write when both are null
clear(t) == clear_buckets([t EXCEPT !.m_values = <<>>])

\* max_load_factor(ml) that stores ml and leaves m_max_bucket_capacity as it was
set_max_load_factor_stale(t, ml) == [t EXCEPT !.m_max_load_factor = ml]

set_max_load_factor(t, ml) ==
    [t EXCEPT !.m_max_load_factor = ml,
              !.m_max_bucket_capacity = FloorMul(bucket_count(t), ml)]

\* rehash with m_values.resize(count) in the place of shrink_to_fit()
rehash_resize(t, count) ==
    IF calc_shifts_for_size(t, count) # t.m_shifts
    THEN fill_buckets_from_values(
            allocate_and_clear_buckets(
                deallocate_buckets(
                    [t EXCEPT !.m_shifts = calc_shifts_for_size(t, count),
                              !.m_values = SubSeq(t.m_values, 1, count)])))
    ELSE t

\* m_values.shrink_to_fit() changes the capacity of the vector, not its entries
rehash(t, count) ==
    IF calc_shifts_for_size(t, count) # t.m_shifts
    THEN fill_buckets_from_values(
            allocate_and_clear_buckets(
                deallocate_buckets([t EXCEPT !.m_shifts = calc_shifts_for_size(t, count)])))
    ELSE t

reserve(t, capa) ==
    IF calc_shifts_for_size(t, capa) < t.m_shifts
    THEN fill_buckets_from_values(
            allocate_and_clear_buckets(
                deallocate_buckets([t EXCEPT !.m_shifts = calc_shifts_for_size(t, capa)])))
    ELSE t

\* ---------------------------------------------------------------- actions
\* abs[k] is <<>> for a key the map does not hold and <<v>> for k -> v
Absent == << >>

\* rebuilt: the call replaced the metadata array (m_shifts changed)
\* pair: a two-part argument (an iterator range, a load factor); result: a bool returned;
\* error: the exception that left the call, "none" when it returned
\* freed: the calls of BucketAllocTraits::deallocate made by a swap or a destructor
Call(op, key, mapped, n, ret, inserted, t) ==
    [op |-> op, key |-> key, mapped |-> mapped, n |-> n, ret |-> ret, inserted |-> inserted,
     rebuilt |-> t.m_shifts # m_shifts, pair |-> <<0, 0>>, result |-> FALSE,
     error |-> "none", freed |-> <<>>]

\* *this after the call
StoreThis(t) ==
    /\ m_values' = t.m_values
    /\ m_buckets' = t.m_buckets
    /\ m_max_bucket_capacity' = t.m_max_bucket_capacity
    /\ m_max_load_factor' = t.m_max_load_factor
    /\ m_shifts' = t.m_shifts
    /\ m_hash' = t.m_hash
    /\ fault' = t.fault

\* *this after a call that does not involve the second table
Store(t) == StoreThis(t) /\ other' = other

\* a default-constructed table with the hash h
NewTable(h) ==
    [m_values |-> <<>>, m_buckets |-> NullBuckets, m_max_bucket_capacity |-> 0,
     m_max_load_factor |-> DefaultLoadFactor, m_shifts |-> INITIAL_SHIFTS,
     m_hash |-> h, fault |-> "none"]

\* table(size_t bucket_count, Hash const& hash, ...): the first parameter is
\* unnamed and not used; the members keep their default initialisers
table_construct(bucket_count_hint, hash) == NewTable(hash)

\* the call is written to last when rec; otherwise last only tells that some
\* call was made
Log(rec, call) == last' = IF rec THEN call ELSE Call("", 0, 0, 0, 0, FALSE, Self)

\* table(): no metadata array is allocated and m_max_bucket_capacity is 0
Init ==
    /\ m_values = <<>>
    /\ m_buckets = NullBuckets
    /\ m_max_bucket_capacity = 0
    /\ m_max_load_factor = DefaultLoadFactor
    /\ m_shifts = INITIAL_SHIFTS
    /\ m_hash \in Hashes
    /\ fault = "none"
    /\ last = Call("table", 0, 0, 0, 0, FALSE, Self)
    /\ abs = [k \in AllKeys |-> Absent]
    /\ other = NewTable(m_hash)

\* insert(value) and emplace(args...)
Emplace(K, rec) ==
    \E k \in K, v \in Vals :
        LET r == emplace(Self, k, v)
        IN /\ fault = "none"
           /\ Store(r.t)
           /\ Log(rec, Call("emplace", k, v, 0, r.ret, r.inserted, r.t))
           /\ abs' = IF abs[k] = Absent THEN [abs EXCEPT ![k] = <<v>>] ELSE abs

TryEmplace(K, rec) ==
    \E k \in K, v \in Vals :
        LET r == do_try_emplace(Self, k, v)
        IN /\ fault = "none"
           /\ Store(r.t)
           /\ Log(rec, Call("try_emplace", k, v, 0, r.ret, r.inserted, r.t))
           /\ abs' = IF abs[k] = Absent THEN [abs EXCEPT ![k] = <<v>>] ELSE abs

\* operator[](key): try_emplace(key) with a value-initialised mapped value
Subscript(K, rec) ==
    \E k \in K :
        LET r == do_try_emplace(Self, k, 0)
        IN /\ fault = "none"
           /\ Store(r.t)
           /\ Log(rec, Call("operator[]", k, 0, 0, r.ret, r.inserted, r.t))
           /\ abs' = IF abs[k] = Absent THEN [abs EXCEPT ![k] = <<0>>] ELSE abs

InsertOrAssign(K, rec) ==
    \E k \in K, v \in Vals :
        LET r == do_insert_or_assign(Self, k, v)
        IN /\ fault = "none"
           /\ Store(r.t)
           /\ Log(rec, Call("insert_or_assign", k, v, 0, r.ret, r.inserted, r.t))
           /\ abs' = [abs EXCEPT ![k] = <<v>>]

\* erase(key).  With m_buckets_start == nullptr next_while_less reads
\* m_buckets_start[hash >> m_shifts], a null pointer dereference: the read
\* traps, or it yields a zero word and the call returns 0.
EraseKey(K, rec) ==
    \E k \in K :
        /\ fault = "none"
        /\ IF bucket_count(Self) = 0
           THEN /\ \E outcome \in {"segv", "none"} : Store([Self EXCEPT !.fault = outcome])
                /\ Log(rec, Call("erase", k, 0, 0, 0, FALSE, Self))
           ELSE LET r == do_erase_key(Self, k)
                IN /\ Store(r.t)
                   /\ Log(rec, Call("erase", k, 0, 0, r.ret, FALSE, r.t))
        /\ abs' = [abs EXCEPT ![k] = Absent]

\* erase(iterator) with a dereferenceable iterator
EraseIterator(rec) ==
    \E it \in 0..(Len(m_values) - 1) :
        LET r == erase_iterator(Self, it)
        IN /\ fault = "none"
           /\ Store(r.t)
           /\ Log(rec, Call("erase_it", get_key(ValueAt(Self, it)), 0, it, r.ret, FALSE, r.t))
           /\ abs' = [abs EXCEPT ![get_key(ValueAt(Self, it))] = Absent]

\* erase(first, last) on a valid range.  The function is declared to return an
\* iterator and its body ends without a return statement: once both passes are
\* done control flows off the end of a value-returning function, which is
\* undefined.  The call either comes back with an indeterminate iterator or
\* runs into the trap / unreachable code the compiler put behind the body.
EraseRange(rec) ==
    \E first \in 0..Len(m_values) : \E last_ \in first..Len(m_values) :
        LET t == erase_range(Self, first, last_)
        IN /\ fault = "none"
           /\ \E outcome \in {"none", "noreturn"} :
                  Store([t EXCEPT !.fault = IF t.fault = "none" THEN outcome ELSE t.fault])
           /\ Log(rec, [Call("erase_range", 0, 0, 0, 0, FALSE, t) EXCEPT
                            !.pair = <<first, last_>>])
           /\ abs' = [k \in AllKeys |->
                         IF \E i \in (first + 1)..last_ : m_values[i][1] = k
                         THEN Absent ELSE abs[k]]

Clear(rec) ==
    /\ fault = "none"
    /\ Store(clear(Self))
    /\ Log(rec, Call("clear", 0, 0, 0, 0, FALSE, Self))
    /\ abs' = [k \in AllKeys |-> Absent]

MaxLoadFactor(rec) ==
    \E ml \in LoadFactors :
        /\ fault = "none"
        /\ Store(set_max_load_factor(Self, ml))
        /\ Log(rec, [Call("max_load_factor", 0, 0, 0, 0, FALSE, Self) EXCEPT !.pair = ml])
        /\ abs' = abs

Rehash(rec) ==
    \E count \in Counts :
        /\ fault = "none"
        /\ LET t == rehash(Self, count)
           IN Store(t) /\ Log(rec, Call("rehash", 0, 0, count, 0, FALSE, t))
        /\ abs' = abs

Reserve(rec) ==
    \E capa \in Counts :
        /\ fault = "none"
        /\ LET t == reserve(Self, capa)
           IN Store(t) /\ Log(rec, Call("reserve", 0, 0, capa, 0, FALSE, t))
        /\ abs' = abs

\* at(key); the mapped value it returns or the exception it throws is written to last
At(K) ==
    \E k \in K :
        LET r == at(Self, k)
        IN /\ fault = "none"
           /\ Store(r.t)
           /\ last' = [Call("at", k, r.mapped, 0, 0, FALSE, r.t) EXCEPT !.error = r.error]
           /\ abs' = abs

\* insert/emplace on a full table while the allocator has no memory for the new
\* metadata array: std::bad_alloc leaves increase_size() and emplace()
EmplaceBadAlloc(K, rec) ==
    \E k \in K, v \in Vals :
        /\ fault = "none"
        /\ is_full(Self)
        /\ m_shifts > MinShifts
        /\ Store(increase_size_bad_alloc(Self))
        /\ Log(rec, [Call("emplace", k, v, 0, 0, FALSE, increase_size_bad_alloc(Self))
                        EXCEPT !.error = "bad_alloc"])
        /\ abs' = abs

\* rehash(count) that has to allocate, while the allocator has no memory
RehashBadAlloc(rec) ==
    \E count \in Counts :
        /\ fault = "none"
        /\ calc_shifts_for_size(Self, count) # m_shifts
        /\ LET t == rebuild_bad_alloc(Self, calc_shifts_for_size(Self, count))
           IN Store(t) /\ Log(rec, [Call("rehash", 0, 0, count, 0, FALSE, t)
                                       EXCEPT !.error = "bad_alloc"])
        /\ abs' = abs

\* reserve(capa) that has to allocate, while the allocator has no memory
ReserveBadAlloc(rec) ==
    \E capa \in Counts :
        /\ fault = "none"
        /\ calc_shifts_for_size(Self, capa) < m_shifts
        /\ LET t == rebuild_bad_alloc(Self, calc_shifts_for_size(Self, capa))
           IN Store(t) /\ Log(rec, [Call("reserve", 0, 0, capa, 0, FALSE, t)
                                       EXCEPT !.error = "bad_alloc"])
        /\ abs' = abs

\* insert/emplace whose call of the user's hash throws: the exception leaves
\* emplace() after emplace_back and before the probe; nothing catches it.
\* Failing calls are followed while V holds fewer than MaxLen entries.
EmplaceHashThrows(K, rec) ==
    \E k \in K, v \in Vals :
        LET t == emplace_back_done(Self, k, v)
        IN /\ fault = "none"
           /\ Len(m_values) < MaxLen
           /\ Store(t)
           /\ Log(rec, [Call("emplace", k, v, 0, 0, FALSE, t) EXCEPT !.error = "hash_threw"])
           /\ abs' = abs

\* insert/emplace whose first call of the user's key equality throws, inside
\* the probe loop
EmplaceEqualThrows(K, rec) ==
    \E k \in K, v \in Vals :
        LET t == emplace_back_done(Self, k, v)
        IN /\ fault = "none"
           /\ Len(m_values) < MaxLen
           /\ probe_calls_equal(t, dist_and_fingerprint_from_hash(mixed_hash(t, k)),
                                bucket_from_hash(t, mixed_hash(t, k)))
           /\ Store(t)
           /\ Log(rec, [Call("emplace", k, v, 0, 0, FALSE, t) EXCEPT !.error = "equal_threw"])
           /\ abs' = abs

\* table other(*this): the second table becomes a copy of this one
CopyConstruct(rec) ==
    /\ fault = "none"
    /\ StoreThis(Self)
    /\ other' = copy_construct(Self)
    /\ Log(rec, Call("copy", 0, 0, 0, 0, FALSE, Self))
    /\ abs' = abs

\* other = *this
CopyAssign(rec) ==
    /\ fault = "none"
    /\ StoreThis(Self)
    /\ other' = copy_assign(other, Self)
    /\ Log(rec, Call("copy=", 0, 0, 0, 0, FALSE, Self))
    /\ abs' = abs

\* the abstract map of the entries of t
AbsOf(t) ==
    [k \in AllKeys |->
        IF \E i \in 1..Len(t.m_values) : t.m_values[i][1] = k
        THEN <<t.m_values[CHOOSE i \in 1..Len(t.m_values) : t.m_values[i][1] = k][2]>>
        ELSE Absent]

\* table other(std::move(*this))
MoveConstruct(rec) ==
    /\ fault = "none"
    /\ StoreThis(move_construct(Self).s)
    /\ other' = move_construct(Self).d
    /\ Log(rec, Call("move", 0, 0, 0, 0, FALSE, Self))
    /\ abs' = [k \in AllKeys |-> Absent]

\* other = std::move(*this)
MoveAssign(rec) ==
    /\ fault = "none"
    /\ StoreThis(move_assign(other, Self).s)
    /\ other' = move_assign(other, Self).d
    /\ Log(rec, Call("move=", 0, 0, 0, 0, FALSE, Self))
    /\ abs' = [k \in AllKeys |-> Absent]

\* *this = std::move(other): a moved-from *this is assigned again
MoveAssignBack(rec) ==
    /\ fault = "none"
    /\ StoreThis(move_assign(Self, other).d)
    /\ other' = move_assign(Self, other).s
    /\ Log(rec, Call("move_back", 0, 0, 0, 0, FALSE, Self))
    /\ abs' = AbsOf(other)

\* *this was moved from and has not been assigned since: no metadata array,
\* and a capacity threshold left over from the array it gave away
MovedFrom == bucket_count(Self) = 0 /\ m_max_bucket_capacity > 0

\* a table is constructed with a bucket-count hint and takes the place of *this
Construct(rec) ==
    \E bucket_count_hint \in Counts :
        LET t == table_construct(bucket_count_hint, m_hash)
        IN /\ fault = "none"
           /\ Store(t)
           /\ Log(rec, Call("table", 0, 0, bucket_count_hint, 0, FALSE, t))
           /\ abs' = [k \in AllKeys |-> Absent]

\* insert/emplace with the uint32_t members and locals IdxBits wide; no path of
\* emplace throws, so the call is recorded with error "none"
EmplaceNarrow(K, rec) ==
    \E k \in K, v \in Vals :
        LET r == emplace_narrow(Self, k, v)
        IN /\ fault = "none"
           /\ Store(r.t)
           /\ Log(rec, Call("emplace", k, v, 0, r.ret, r.inserted, r.t))
           /\ abs' = IF abs[k] = Absent THEN [abs EXCEPT ![k] = <<v>>] ELSE abs

\* the set of keys pred as a number: bit k - 1 is set when k is in pred
PredMask(pred) ==
    LET RECURSIVE sum(_)
        sum(k) == IF k = 0 THEN 0 ELSE sum(k - 1) + (IF k \in pred THEN 2 ^ (k - 1) ELSE 0)
    IN sum(NKeys)

\* std::erase_if(*this, pred) for a predicate on the key; the predicate is
\* written to last as PredMask
EraseIf(rec) ==
    \E pred \in SUBSET Keys :
        LET r == erase_if(Self, pred)
        IN /\ fault = "none"
           /\ Store(r.t)
           /\ Log(rec, Call("erase_if", 0, 0, PredMask(pred), r.ret, FALSE, r.t))
           /\ abs' = [k \in AllKeys |-> IF k \in pred THEN Absent ELSE abs[k]]

\* swap(other)
Swap(rec) ==
    LET r == swap(Self, other)
    IN /\ fault = "none"
       /\ StoreThis(r.a)
       /\ other' = r.b
       /\ Log(rec, [Call("swap", 0, 0, 0, 0, FALSE, r.a) EXCEPT !.freed = r.freed])
       /\ abs' = AbsOf(other)

\* ~table() of *this; a default-constructed table then takes its place
Destroy(rec) ==
    /\ fault = "none"
    /\ Store(NewTable(m_hash))
    /\ Log(rec, [Call("~table", 0, 0, 0, 0, FALSE, NewTable(m_hash)) EXCEPT
                    !.freed = <<deallocate_call(Self)>>])
    /\ abs' = [k \in AllKeys |-> Absent]

\* *this == other; the bool it returns is written to last
Equal ==
    /\ fault = "none"
    /\ Store(Self)
    /\ last' = [Call("operator==", 0, 0, 0, 0, FALSE, Self) EXCEPT
                    !.result = operator_eq(Self, other)]
    /\ abs' = abs

\* find(key) changes nothing; its result is written to last
Find(K) ==
    \E k \in K :
        /\ fault = "none"
        /\ Store(Self)
        /\ last' = Call("find", k, 0, 0, do_find(Self, k), FALSE, Self)
        /\ abs' = abs

\* Calls on NKeys keys, each written to last with what it returned
Next ==
    \/ Emplace(Keys, TRUE)
    \/ TryEmplace(Keys, TRUE)
    \/ Subscript(Keys, TRUE)
    \/ InsertOrAssign(Keys, TRUE)
    \/ EraseKey(Keys, TRUE)
    \/ EraseIterator(TRUE)
    \/ Clear(TRUE)
    \/ MaxLoadFactor(TRUE)
    \/ Rehash(TRUE)
    \/ Reserve(TRUE)
    \/ Find(Keys)
    \/ At(Keys)

Spec == Init /\ [][Next]_vars

\* The same calls on NWideKeys keys, enough of them for probe runs longer than
\* the unrolled part of do_find; the calls are not recorded in last
NextWide ==
    \/ Emplace(WideKeys, FALSE)
    \/ TryEmplace(WideKeys, FALSE)
    \/ Subscript(WideKeys, FALSE)
    \/ InsertOrAssign(WideKeys, FALSE)
    \/ EraseKey(WideKeys, FALSE)
    \/ EraseIterator(FALSE)
    \/ Clear(FALSE)
    \/ MaxLoadFactor(FALSE)
    \/ Rehash(FALSE)
    \/ Reserve(FALSE)

SpecWide == Init /\ [][NextWide]_vars

\* Bulk fill: keys 1, 2, ... are inserted in this order with the load factor
\* left at its default, and rehash is called in between
NextBulk ==
    \/ Emplace({Len(m_values) + 1} \cap BulkKeys, TRUE)
    \/ Rehash(TRUE)

SpecBulk == Init /\ [][NextBulk]_vars

\* Inserts of NWideKeys keys and range erases over what they stored
NextRange ==
    \/ Emplace(WideKeys, TRUE)
    \/ EraseRange(TRUE)

SpecRange == Init /\ [][NextRange]_vars

\* Two tables: this one is filled, changed and copied to the other, and the
\* two are compared
NextPair ==
    \/ Emplace(PairKeys, TRUE)
    \/ InsertOrAssign(PairKeys, TRUE)
    \/ EraseKey(PairKeys, TRUE)
    \/ MaxLoadFactor(TRUE)
    \/ CopyConstruct(TRUE)
    \/ CopyAssign(TRUE)
    \/ Equal

SpecPair == Init /\ [][NextPair]_vars

\* Inserts, rehash and reserve with an allocator that may run out of memory
\* when a new metadata array is asked for
NextAlloc ==
    \/ Emplace(PairKeys, TRUE)
    \/ MaxLoadFactor(TRUE)
    \/ Rehash(TRUE)
    \/ Reserve(TRUE)
    \/ EmplaceBadAlloc(PairKeys, TRUE)
    \/ RehashBadAlloc(TRUE)
    \/ ReserveBadAlloc(TRUE)

SpecAlloc == Init /\ [][NextAlloc]_vars

\* Inserts with a user hash and a key equality that may throw
NextThrow ==
    \/ Emplace(PairKeys, TRUE)
    \/ EmplaceHashThrows(PairKeys, TRUE)
    \/ EmplaceEqualThrows(PairKeys, TRUE)

SpecThrow == Init /\ [][NextThrow]_vars

\* Two tables and moves between them; a moved-from table is only assigned to
NextMove ==
    \/ (~MovedFrom /\ Emplace(PairKeys, TRUE))
    \/ (~MovedFrom /\ EraseKey(PairKeys, TRUE))
    \/ CopyConstruct(TRUE)
    \/ MoveConstruct(TRUE)
    \/ MoveAssign(TRUE)
    \/ MoveAssignBack(TRUE)

SpecMove == Init /\ [][NextMove]_vars

\* This table is filled and changed through inserts, erases and load factor
\* changes (not recorded in last) and copied to the second table
NextCopy ==
    \/ Emplace(Keys, FALSE)
    \/ EraseKey(Keys, FALSE)
    \/ MaxLoadFactor(FALSE)
    \/ CopyConstruct(TRUE)
    \/ CopyAssign(TRUE)

SpecCopy == Init /\ [][NextCopy]_vars

\* Tables constructed with a bucket-count hint, then filled and emptied
NextConstruct ==
    \/ Construct(TRUE)
    \/ Emplace(Keys, TRUE)
    \/ EraseKey(Keys, TRUE)

SpecConstruct == Init /\ [][NextConstruct]_vars

\* Keys 1, 2, ... are inserted in this order into a table whose uint32_t
\* fields are IdxBits wide, up to and past max_size() = IdxWord - 1 entries
NextNarrow == EmplaceNarrow({Len(m_values) + 1} \cap BulkKeys, TRUE)

SpecNarrow == Init /\ [][NextNarrow]_vars

\* Inserts, and std::erase_if with every predicate on the keys
NextEraseIf ==
    \/ Emplace(Keys, TRUE)
    \/ EraseIf(TRUE)

SpecEraseIf == Init /\ [][NextEraseIf]_vars

\* Two tables that are filled, copied, moved, swapped and destroyed; a
\* moved-from table is only assigned to, swapped or destroyed
NextOwn ==
    \/ (~MovedFrom /\ Emplace(PairKeys, TRUE))
    \/ CopyConstruct(TRUE)
    \/ MoveConstruct(TRUE)
    \/ MoveAssign(TRUE)
    \/ MoveAssignBack(TRUE)
    \/ Swap(TRUE)
    \/ Destroy(TRUE)

SpecOwn == Init /\ [][NextOwn]_vars

\* ------------------------------------------------------- claim vocabulary
\* *this after the step
SelfNext ==
    [m_values |-> m_values', m_buckets |-> m_buckets',
     m_max_bucket_capacity |-> m_max_bucket_capacity',
     m_max_load_factor |-> m_max_load_factor', m_shifts |-> m_shifts',
     m_hash |-> m_hash', fault |-> fault']

KeysOf(values) == [i \in 1..Len(values) |-> values[i][1]]
HasKey(values, k) == \E i \in 1..Len(values) : values[i][1] = k
\* the position (0-based) of key k in values
PosOf(values, k) == CHOOSE i \in 0..(Len(values) - 1) : values[i + 1][1] = k
\* the displacement field of the slot that refers to value_idx i
DistOfIdx(t, i) ==
    LET b == CHOOSE b \in DOMAIN t.m_buckets :
                 t.m_buckets[b].dist_and_fingerprint # 0 /\ t.m_buckets[b].value_idx = i
    IN t.m_buckets[b].dist_and_fingerprint \div BUCKET_DIST_INC
InsertOps == {"emplace", "try_emplace", "operator[]", "insert_or_assign"}

\* C1: in every state the calls reach, find(k) returns the position of the entry
\* (k, v) exactly when the abstract map holds k -> v, and end() when it holds no k.
FindMatchesAbstractMap ==
    fault = "none" =>
        \A k \in AllKeys :
            IF abs[k] = Absent
            THEN do_find(Self, k) = size(Self)
            ELSE /\ do_find(Self, k) < size(Self)
                 /\ ValueAt(Self, do_find(Self, k)) = <<k, abs[k][1]>>

\* a stored key four probes from its home bucket: do_find reaches it only by
\* going round its loop after the unrolled probes
FindHitInLoop ==
    /\ fault = "none"
    /\ \E i \in 0..(size(Self) - 1) :
           DistOfIdx(Self, i) >= 4 /\ do_find(Self, get_key(ValueAt(Self, i))) = i

\* C2: emplace/insert of an absent key appends (key, mapped) at position
\* size-before and returns (that position, true); of a present key it returns
\* (position of the existing entry, false) and leaves V as it was.
EmplaceContract ==
    [][last'.op = "emplace" =>
        /\ fault' = "none"
        /\ IF HasKey(m_values, last'.key)
           THEN /\ m_values' = m_values
                /\ ~last'.inserted
                /\ last'.ret = PosOf(m_values, last'.key)
           ELSE /\ m_values' = Append(m_values, <<last'.key, last'.mapped>>)
                /\ last'.inserted
                /\ last'.ret = Len(m_values)]_vars

\* an emplace that met its key with another mapped value and popped its entry
EmplaceDuplicatePopped ==
    /\ last.op = "emplace"
    /\ ~last.inserted
    /\ last.ret < size(Self)
    /\ ValueAt(Self, last.ret)[2] # last.mapped

\* C3: erase(key) returns 1 on a present key and 0 on an absent one, leaves the
\* container unchanged on a miss, and does so in every reachable state.
EraseKeyContract ==
    [][last'.op = "erase" =>
        /\ fault' = "none"
        /\ last'.ret = (IF HasKey(m_values, last'.key) THEN 1 ELSE 0)
        /\ ~HasKey(m_values, last'.key) =>
               UNCHANGED <<m_values, m_buckets, m_max_bucket_capacity,
                           m_max_load_factor, m_shifts>>]_vars

\* C4: no two entries of V have equal keys.
NoDuplicateKeys ==
    \A i, j \in 1..Len(m_values) : i # j => m_values[i][1] # m_values[j][1]

\* a container that holds every key, two of them with the same hash word, which
\* only the key comparison of the insert probe tells apart
CollidingKeysStored ==
    /\ fault = "none"
    /\ size(Self) = NWideKeys
    /\ mixed_hash(Self, 1) = mixed_hash(Self, 2)
    /\ m_shifts < INITIAL_SHIFTS - 1

\* V after erasing position r: the last entry in the hole, everything else in place
AfterErase(values, r) ==
    [i \in 1..(Len(values) - 1) |-> IF i = r + 1 THEN values[Len(values)] ELSE values[i]]
\* after the step no slot refers past the end of V, and find returns for every
\* entry its position
AllFoundNext ==
    /\ \A b \in DOMAIN m_buckets' :
           m_buckets'[b].dist_and_fingerprint # 0 => m_buckets'[b].value_idx < Len(m_values')
    /\ \A i \in 1..Len(m_values') : do_find(SelfNext, m_values'[i][1]) = i - 1

\* C5: erase of the entry at position r (by key or by iterator) moves the last
\* entry to r when r is not the last position, keeps every other entry at its
\* position, shrinks V by one, and every remaining entry is still found by find
\* with its mapped value.
EraseSwapsLast ==
    [][(last'.op \in {"erase", "erase_it"} /\ HasKey(m_values, last'.key)) =>
        /\ fault' = "none"
        /\ m_values' = AfterErase(m_values, PosOf(m_values, last'.key))
        /\ AllFoundNext]_vars

\* an erase by iterator before the last position: the last entry was moved
ErasedBeforeLast ==
    /\ last.op = "erase_it"
    /\ last.n < size(Self)
    /\ size(Self) >= 2

\* C6: no call other than erase and clear moves, reorders or removes an entry:
\* a successful insert appends its key behind the keys already there, and a
\* call that rebuilds the metadata (grow, reserve, rehash) or only changes the
\* load factor leaves V exactly as it was; so keys inserted with no erase in
\* between are iterated in insertion order.
InsertionOrderKept ==
    [][(last'.op \in InsertOps \cup {"rehash", "reserve", "max_load_factor", "find"}) =>
        /\ fault' = "none"
        /\ KeysOf(m_values') =
              IF last'.op \in InsertOps /\ last'.inserted
              THEN Append(KeysOf(m_values), last'.key)
              ELSE KeysOf(m_values)
        /\ last'.op \notin InsertOps => m_values' = m_values]_vars

\* an insert that grew the table over two stored entries and appended a third
GrewWhileInserting ==
    /\ last.op \in InsertOps
    /\ last.inserted
    /\ last.rebuilt
    /\ size(Self) = 3
    /\ KeysOf(m_values)[3] = last.key

\* C7: try_emplace of a present key returns (position of the existing entry,
\* false) and leaves V, mapped value included, as it was; of an absent key it
\* appends (key, mapped) and returns (that position, true).
TryEmplaceContract ==
    [][last'.op = "try_emplace" =>
        /\ fault' = "none"
        /\ IF HasKey(m_values, last'.key)
           THEN /\ m_values' = m_values
                /\ ~last'.inserted
                /\ last'.ret = PosOf(m_values, last'.key)
           ELSE /\ m_values' = Append(m_values, <<last'.key, last'.mapped>>)
                /\ last'.inserted
                /\ last'.ret = Len(m_values)]_vars

\* a try_emplace that met its key and kept the other mapped value stored for it
TryEmplaceKeptValue ==
    /\ last.op = "try_emplace"
    /\ ~last.inserted
    /\ last.ret < size(Self)
    /\ ValueAt(Self, last.ret)[1] = last.key
    /\ ValueAt(Self, last.ret)[2] # last.mapped

\* C8: after insert_or_assign(k, v) exactly one entry of V has key k and its
\* mapped value is v: an absent k is appended and (position, true) returned, a
\* present k is overwritten in place and (its position, false) returned.
InsertOrAssignContract ==
    [][last'.op = "insert_or_assign" =>
        /\ fault' = "none"
        /\ Cardinality({i \in 1..Len(m_values') : m_values'[i][1] = last'.key}) = 1
        /\ IF HasKey(m_values, last'.key)
           THEN /\ m_values' = [m_values EXCEPT
                                   ![PosOf(m_values, last'.key) + 1][2] = last'.mapped]
                /\ ~last'.inserted
                /\ last'.ret = PosOf(m_values, last'.key)
           ELSE /\ m_values' = Append(m_values, <<last'.key, last'.mapped>>)
                /\ last'.inserted
                /\ last'.ret = Len(m_values)
        /\ do_find(SelfNext, last'.key) = last'.ret
        /\ m_values'[last'.ret + 1][2] = last'.mapped]_vars

\* an insert_or_assign that overwrote an entry in the middle of V
AssignedInPlace ==
    /\ last.op = "insert_or_assign"
    /\ ~last.inserted
    /\ last.ret < size(Self) - 1
    /\ ValueAt(Self, last.ret) = <<last.key, last.mapped>>

\* C9: between calls size() <= floor(bucket_count() * max_load_factor()).
CapacityInvariant ==
    fault = "none" => size(Self) <= FloorMul(bucket_count(Self), m_max_load_factor)

\* the smallest power of two, at least 8, whose capacity under ml admits n entries
MinBucketsFor(n, ml) ==
    LET admits == {b \in {2 ^ e : e \in 3..HashBits} : FloorMul(b, ml) >= n}
    IN CHOOSE b \in admits : \A c \in admits : b <= c

\* C10: rehash(c) with c below the size n ends, keeps every entry found with its
\* mapped value, and leaves bucket_count the smallest power of two (at least 8)
\* whose capacity is at least n.
RehashBelowSize ==
    [][(last'.op = "rehash" /\ last'.n < Len(m_values)) =>
        /\ fault' = "none"
        /\ m_values' = m_values
        /\ bucket_count(SelfNext) = MinBucketsFor(Len(m_values), m_max_load_factor)
        /\ AllFoundNext]_vars

\* C11: after reserve(c) with c >= 1 the capacity threshold
\* floor(bucket_count * max_load_factor) is at least c, on a newly constructed
\* container too, and reserve never decreases bucket_count.
ReserveContract ==
    [][(last'.op = "reserve" /\ last'.n >= 1) =>
        /\ fault' = "none"
        /\ FloorMul(bucket_count(SelfNext), m_max_load_factor') >= last'.n
        /\ m_max_bucket_capacity' >= last'.n
        /\ bucket_count(SelfNext) >= bucket_count(Self)]_vars

\* C12: max_load_factor(ml) stores ml and sets the capacity threshold to
\* floor(bucket_count * ml), and leaves V, the metadata array and the shift
\* amount as they were; when that leaves the threshold below |V|, the next
\* insert-like call doubles the bucket count and rebuilds the metadata, after
\* which every entry is found at its position.
MaxLoadFactorContract ==
    [][/\ last'.op = "max_load_factor" =>
            /\ fault' = "none"
            /\ m_max_load_factor' = last'.pair
            /\ m_max_bucket_capacity' = FloorMul(bucket_count(Self), last'.pair)
            /\ UNCHANGED <<m_values, m_buckets, m_shifts>>
       /\ (/\ last.op = "max_load_factor"
           /\ m_max_bucket_capacity < Len(m_values)
           /\ last'.op \in InsertOps) =>
            /\ fault' = "none"
            /\ last'.rebuilt
            /\ m_shifts' = m_shifts - 1
            /\ bucket_count(SelfNext) = 2 * bucket_count(Self)
            /\ m_max_bucket_capacity' = FloorMul(bucket_count(SelfNext), m_max_load_factor)
            /\ AllFoundNext]_vars

\* max_load_factor has just lowered the threshold below the number of entries
LoadFactorLoweredBelowSize ==
    /\ last.op = "max_load_factor"
    /\ fault = "none"
    /\ m_max_bucket_capacity < size(Self)
    /\ m_max_bucket_capacity = FloorMul(bucket_count(Self), m_max_load_factor)

\* C13: erase(first, last) on a valid range returns to its caller with exactly
\* the entries formerly at positions [first, last) removed: none of their keys
\* is found, every other entry is found with its mapped value, and the size has
\* dropped by last - first, whichever of the two passes ran.
EraseRangeContract ==
    [][last'.op = "erase_range" =>
        /\ fault' = "none"
        /\ Len(m_values') = Len(m_values) - (last'.pair[2] - last'.pair[1])
        /\ \A i \in 1..Len(m_values) :
              IF i \in (last'.pair[1] + 1)..last'.pair[2]
              THEN do_find(SelfNext, m_values[i][1]) = Len(m_values')
              ELSE /\ do_find(SelfNext, m_values[i][1]) < Len(m_values')
                   /\ ValueAt(SelfNext, do_find(SelfNext, m_values[i][1])) = m_values[i]
        /\ AllFoundNext]_vars

\* the tables a and b hold the same size and every entry of b has its key in a
\* with an equal mapped value
SameEntries(a, b) ==
    /\ Len(a.m_values) = Len(b.m_values)
    /\ \A i \in 1..Len(b.m_values) : \E j \in 1..Len(a.m_values) : a.m_values[j] = b.m_values[i]

\* C14: operator== returns true exactly when both tables have the same size
\* and every key of one is in the other with an equal mapped value, whatever
\* the order of the entries and the bucket counts, and a == b equals b == a.
EqualContract ==
    [][last'.op = "operator==" =>
        /\ last'.result = SameEntries(Self, other)
        /\ last'.result = SameEntries(other, Self)
        /\ last'.result = operator_eq(other, Self)]_vars

\* two tables that compared equal with their entries in different order and
\* with different bucket counts
EqualInOtherOrder ==
    /\ last.op = "operator=="
    /\ last.result
    /\ size(Self) >= 2
    /\ m_values # other.m_values
    /\ bucket_count(Self) # bucket_count(other)

\* C15: at(key) returns the mapped value stored for a present key and throws
\* std::out_of_range for an absent one; either way V, the metadata, the bucket
\* count, the shift amount and the capacity threshold stay as they were.
AtContract ==
    [][last'.op = "at" =>
        /\ fault' = "none"
        /\ UNCHANGED <<m_values, m_buckets, m_max_bucket_capacity, m_max_load_factor,
                       m_shifts>>
        /\ IF HasKey(m_values, last'.key)
           THEN /\ last'.error = "none"
                /\ last'.mapped = m_values[PosOf(m_values, last'.key) + 1][2]
           ELSE last'.error = "out_of_range"]_vars

\* at() has thrown for a key that is absent from a table holding other keys
AtMissed ==
    /\ last.op = "at"
    /\ last.error = "out_of_range"
    /\ size(Self) >= 2
    /\ ~HasKey(m_values, last.key)

\* C16: when the allocation of the new metadata array fails during a grow, a
\* rehash or a reserve, the call ends with the error and the table is as it was
\* before the call: V, the metadata array, the shift amount and the capacity
\* threshold unchanged, never entries in V with no metadata array.
BadAllocKeepsState ==
    [][last'.error = "bad_alloc" =>
        /\ UNCHANGED <<m_values, m_buckets, m_shifts, m_max_bucket_capacity>>
        /\ ~(Len(m_values') > 0 /\ bucket_count(SelfNext) = 0)]_vars

\* C17: when the user's hash or key equality throws during insert/emplace,
\* after the new entry was constructed at the back of V, the entry is removed
\* again: V is as before the call and no metadata slot refers to the new entry.
EmplaceThrowRollsBack ==
    [][last'.error \in {"hash_threw", "equal_threw"} =>
        /\ m_values' = m_values
        /\ \A b \in DOMAIN m_buckets' :
              m_buckets'[b].dist_and_fingerprint # 0 =>
                  m_buckets'[b].value_idx < Len(m_values)]_vars

\* C18: after move-constructing or move-assigning the second table from this
\* one, the second table holds this one's former entries in the same order,
\* its metadata array, bucket count, shift amount and capacity threshold, and
\* finds every key where this one found it; this one is left with a null
\* metadata pointer and an empty V.
MoveContract ==
    [][last'.op \in {"move", "move="} =>
        /\ other'.m_values = m_values
        /\ other'.m_buckets = m_buckets
        /\ bucket_count(other') = bucket_count(Self)
        /\ other'.m_shifts = m_shifts
        /\ other'.m_max_bucket_capacity = m_max_bucket_capacity
        /\ \A i \in 1..Len(m_values) : do_find(other', m_values[i][1]) = i - 1
        /\ m_values' = <<>>
        /\ m_buckets' = NullBuckets]_vars

\* a table holding entries in an allocated metadata array was move-assigned to
\* the second table and is now empty with a null metadata pointer
MovedOverOldArray ==
    /\ last.op = "move="
    /\ size(other) >= 2
    /\ bucket_count(other) > 0
    /\ m_values = <<>>
    /\ m_buckets = NullBuckets
    /\ m_shifts # INITIAL_SHIFTS

\* the non-empty slots of t
Occupied(t) == {b \in DOMAIN t.m_buckets : t.m_buckets[b].dist_and_fingerprint # 0}
\* coverage: exactly |V| slots are non-empty and they refer to 0..|V|-1
Coverage(t) ==
    /\ Cardinality(Occupied(t)) = size(t)
    /\ {t.m_buckets[b].value_idx : b \in Occupied(t)} = 0..(size(t) - 1)
\* displacement and fingerprint: each non-empty slot holds the wrapped distance
\* from the home bucket of its key plus one, and the low 8 bits of its hash
SlotEncoding(t) ==
    \A b \in Occupied(t) :
        LET h == mixed_hash(t, get_key(ValueAt(t, t.m_buckets[b].value_idx)))
            d == (b + bucket_count(t) - bucket_from_hash(t, h)) % bucket_count(t)
        IN t.m_buckets[b].dist_and_fingerprint =
               (d + 1) * BUCKET_DIST_INC + (h % (BUCKET_FINGERPRINT_MASK + 1))
\* robin-hood ordering of cyclically consecutive slots
RobinHood(t) ==
    \A b \in Occupied(t) :
        LET p == IF b = 0 THEN bucket_count(t) - 1 ELSE b - 1
        IN IF p \in Occupied(t)
           THEN t.m_buckets[b].dist_and_fingerprint
                    <= t.m_buckets[p].dist_and_fingerprint + BUCKET_DIST_INC
           ELSE t.m_buckets[b].dist_and_fingerprint \div BUCKET_DIST_INC = 1
\* capacity: |V| is within the threshold, which is floor(bucket_count * max_load_factor)
CapacityOk(t) ==
    /\ size(t) <= t.m_max_bucket_capacity
    /\ t.m_max_bucket_capacity = FloorMul(bucket_count(t), t.m_max_load_factor)

\* C19: copy construction and copy assignment give the second table the
\* entries of this one in the same order, with metadata rebuilt so that
\* coverage, slot encoding, robin-hood ordering and capacity hold; the copy
\* compares equal to this table, which is unchanged.
CopyContract ==
    [][last'.op \in {"copy", "copy="} =>
        /\ other'.m_values = m_values
        /\ other'.m_max_load_factor = m_max_load_factor
        /\ Coverage(other')
        /\ SlotEncoding(other')
        /\ RobinHood(other')
        /\ CapacityOk(other')
        /\ \A i \in 1..Len(m_values) : do_find(other', m_values[i][1]) = i - 1
        /\ operator_eq(other', Self)
        /\ operator_eq(Self, other')
        /\ UNCHANGED <<m_values, m_buckets, m_max_bucket_capacity, m_max_load_factor,
                       m_shifts, m_hash, fault>>]_vars

\* a copy of a table whose load factor was lowered below its size: the copy has
\* another bucket count, and an entry away from its home bucket
CopiedAfterLoadFactorChange ==
    /\ last.op = "copy="
    /\ fault = "none"
    /\ size(Self) = NKeys
    /\ m_max_bucket_capacity < size(Self)
    /\ other.m_values = m_values
    /\ bucket_count(other) # bucket_count(Self)
    /\ \E i \in 0..(size(other) - 1) : DistOfIdx(other, i) >= 2

\* C20: clear() leaves size 0 and every metadata slot empty and keeps the
\* bucket count, the shift amount and the capacity threshold; afterwards find
\* returns end() for every key, I1-I6 hold, and an insert behaves as on an empty
\* table: the entry becomes V[0] and is found there.  This holds in every state
\* the calls reach, a table that never allocated metadata included.
ClearContract ==
    [][last'.op = "clear" =>
        /\ fault' = "none"
        /\ m_values' = <<>>
        /\ DOMAIN m_buckets' = DOMAIN m_buckets
        /\ \A b \in DOMAIN m_buckets' : m_buckets'[b] = EmptyBucket
        /\ UNCHANGED <<m_shifts, m_max_bucket_capacity, m_max_load_factor>>
        /\ \A k \in Keys : do_find(SelfNext, k) = size(SelfNext)
        /\ Coverage(SelfNext) /\ SlotEncoding(SelfNext) /\ RobinHood(SelfNext)
        /\ size(SelfNext) <= FloorMul(bucket_count(SelfNext), m_max_load_factor')
        /\ \A k \in Keys, v \in Vals :
              LET r == emplace(SelfNext, k, v)
              IN /\ r.inserted /\ r.ret = 0
                 /\ r.t.fault = "none"
                 /\ r.t.m_values = <<<<k, v>>>>
                 /\ do_find(r.t, k) = 0
                 /\ \A j \in Keys \ {k} : do_find(r.t, j) = 1
                 /\ Coverage(r.t) /\ SlotEncoding(r.t) /\ CapacityOk(r.t)]_vars

\* clear() on a table that had grown its metadata array and whose capacity
\* threshold no longer is the default one
ClearedGrownTable ==
    /\ last.op = "clear"
    /\ fault = "none"
    /\ size(Self) = 0
    /\ bucket_count(Self) >= 16
    /\ m_max_load_factor # DefaultLoadFactor
    /\ Occupied(Self) = {}

\* C21: whenever a call has returned, directly after construction included,
\* bucket_count() is 2^(width - m_shifts), a power of two, and a newly
\* constructed table has m_shifts = INITIAL_SHIFTS and 8 slots.
BucketCountMatchesShifts ==
    fault = "none" =>
        /\ bucket_count(Self) = calc_num_buckets(m_shifts)
        /\ last.op = "table" => (m_shifts = INITIAL_SHIFTS /\ bucket_count(Self) = 8)

\* C22: a table constructed with a bucket-count hint h >= 1 has, right after
\* construction, an allocated metadata array whose bucket count is a power of
\* two and whose capacity threshold floor(bucket_count * max_load_factor) is at
\* least h; it is empty whatever the hint.
ConstructorHintReserves ==
    [][last'.op = "table" =>
        /\ fault' = "none"
        /\ m_values' = <<>>
        /\ last'.n >= 1 =>
              /\ bucket_count(SelfNext) \in {2 ^ e : e \in 0..HashBits}
              /\ FloorMul(bucket_count(SelfNext), m_max_load_factor') >= last'.n
              /\ m_max_bucket_capacity' >= last'.n]_vars

\* C23: an insert on a table that already holds max_size() entries (IdxWord - 1
\* with the index width scaled to IdxBits) is reported as a capacity-exceeded
\* error and leaves the table as it was; after every insert each non-empty slot
\* refers to an entry of V, no index is stored twice, and the position returned
\* is the one the entry has in V.
MaxSizeChecked ==
    [][last'.op = "emplace" =>
        /\ Len(m_values) >= IdxWord - 1 =>
              /\ last'.error = "capacity_exceeded"
              /\ UNCHANGED <<m_values, m_buckets, m_shifts, m_max_bucket_capacity>>
        /\ Coverage(SelfNext)
        /\ last'.inserted => last'.ret = Len(m_values)]_vars

\* C24: in every state the calls reach exactly |V| metadata slots are
\* non-empty and their value_idx fields are the numbers 0..|V|-1, each once;
\* after an erase too, whose swap-with-last re-points one slot: no slot refers
\* past the end of V and no index is referred to twice.
MetadataCoverage ==
    fault = "none" =>
        /\ Coverage(Self)
        /\ \A b \in Occupied(Self) : m_buckets[b].value_idx < Len(m_values)
        /\ \A b, c \in Occupied(Self) :
              m_buckets[b].value_idx = m_buckets[c].value_idx => b = c

\* an erase of the first of three entries: the last entry, which sits away from
\* its home bucket, was moved to position 0 and its slot re-pointed
ErasedFirstRepointed ==
    /\ last.op = "erase_it"
    /\ last.n = 0
    /\ fault = "none"
    /\ size(Self) = 2
    /\ DistOfIdx(Self, 0) >= 2
    /\ do_find(Self, get_key(ValueAt(Self, 0))) = 0

\* C25: in every state the calls reach, each non-empty slot i that refers to
\* V[j] holds the word ((i - home) mod bucket_count + 1) * 256 + (h mod 256),
\* with h the mixed hash of the key of V[j] and home = h >> m_shifts: the
\* displacement is the wrapped distance from the home bucket plus one, the
\* fingerprint the low 8 bits of h.  Inserts that shift slots up, erases that
\* shift them back and rebuilds with another shift amount keep it.
SlotEncodingKept ==
    fault = "none" =>
        /\ \A b \in Occupied(Self) : m_buckets[b].value_idx < Len(m_values)
        /\ SlotEncoding(Self)

\* a rebuilt array in which a slot before its key's home bucket holds that key:
\* the probe run wrapped around the end of the array
WrappedSlotAfterRebuild ==
    /\ fault = "none"
    /\ m_shifts < INITIAL_SHIFTS - 1
    /\ \E b \in Occupied(Self) :
          /\ bucket_from_hash(Self, mixed_hash(Self, get_key(ValueAt(Self, m_buckets[b].value_idx)))) > b
          /\ m_buckets[b].dist_and_fingerprint \div BUCKET_DIST_INC >= 3

\* the slot that refers to entry i
SlotOf(t, i) == CHOOSE b \in Occupied(t) : t.m_buckets[b].value_idx = i
\* the number of steps from slot c on to slot b, around the end of the array
StepsTo(t, c, b) == (b + bucket_count(t) - c) % bucket_count(t)
\* the slots from the home bucket of the key of entry i up to, not including, the
\* slot that refers to i
RunBefore(t, i) ==
    LET home == bucket_from_hash(t, mixed_hash(t, get_key(ValueAt(t, i))))
    IN {(home + j) % bucket_count(t) : j \in 0..(StepsTo(t, home, SlotOf(t, i)) - 1)}

\* C26: in every state the calls reach, of two cyclically consecutive non-empty
\* slots the second holds a word of at most the first one's plus BUCKET_DIST_INC,
\* and a non-empty slot behind an empty one has displacement 1; so no empty slot
\* lies between the home bucket of a stored key and its slot, and every slot a
\* probe for that key passes holds a word at least as large as the probe's there.
RobinHoodOrdering ==
    fault = "none" =>
        /\ RobinHood(Self)
        /\ \A i \in 0..(size(Self) - 1) :
              \A c \in RunBefore(Self, i) :
                  /\ c \in Occupied(Self)
                  /\ m_buckets[c].dist_and_fingerprint >=
                        m_buckets[SlotOf(Self, i)].dist_and_fingerprint
                           - BUCKET_DIST_INC * StepsTo(Self, c, SlotOf(Self, i))

\* a rebuilt array holding all keys in one run: two neighbours whose words
\* differ by exactly BUCKET_DIST_INC (equal hash words) and a later slot with a
\* smaller fingerprint
EqualWordsAdjacent ==
    /\ fault = "none"
    /\ m_shifts < INITIAL_SHIFTS - 1
    /\ size(Self) = NWideKeys
    /\ \E b \in Occupied(Self) :
          /\ next(Self, b) \in Occupied(Self)
          /\ m_buckets[next(Self, b)].dist_and_fingerprint
                = m_buckets[b].dist_and_fingerprint + BUCKET_DIST_INC
          /\ next(Self, next(Self, b)) \in Occupied(Self)
          /\ m_buckets[next(Self, next(Self, b))].dist_and_fingerprint % BUCKET_DIST_INC
                < m_buckets[b].dist_and_fingerprint % BUCKET_DIST_INC

\* C27: in every state the calls reach, an allocated metadata array has at
\* least one empty slot, and no call runs a placement, rebuild or probe loop
\* that does not end.
EmptySlotAlways ==
    /\ fault # "hang"
    /\ bucket_count(Self) > 0 => Occupied(Self) # DOMAIN m_buckets

\* the number of slots directly behind slot p that are away from their home bucket
RunLen(t, p) ==
    LET n == bucket_count(t)
        away(j) == t.m_buckets[(p + j) % n].dist_and_fingerprint >= 2 * BUCKET_DIST_INC
    IN CHOOSE k \in 0..(n - 1) : ~away(k + 1) /\ \A j \in 1..k : away(j)

\* the array s is the array of t after the backward shift from slot p over k slots
ShiftedBack(t, s, p, k) ==
    LET n == bucket_count(t)
    IN /\ \A j \in 0..(k - 1) :
             s[(p + j) % n] =
                Bucket(t.m_buckets[(p + j + 1) % n].dist_and_fingerprint - BUCKET_DIST_INC,
                       t.m_buckets[(p + j + 1) % n].value_idx)
       /\ s[(p + k) % n] = EmptyBucket
       /\ \A b \in DOMAIN t.m_buckets \ {(p + j) % n : j \in 0..k} : s[b] = t.m_buckets[b]

\* C28: erasing the entry in slot p moves each of the slots directly behind p
\* whose displacement is at least 2 back by one slot, with the displacement
\* reduced by one and fingerprint and value index kept, up to the first empty
\* or home-resident slot; exactly one slot, the last one moved from (p itself
\* when nothing moved), becomes empty; every slot outside that run keeps its
\* word.  The rest of the erase writes no word, only the value index of the
\* slot of the entry moved into the hole of V, and an empty slot is all zero.
BackwardShiftFrame ==
    [][(last'.op \in {"erase", "erase_it"} /\ HasKey(m_values, last'.key)) =>
        \A i \in {PosOf(m_values, last'.key)} :
        \A p \in {SlotOf(Self, i)} :
        \A k \in {RunLen(Self, p)} :
        \A s \in {do_erase_shift(Self, p, next(Self, p)).m_buckets} :
           /\ fault' = "none"
           /\ ShiftedBack(Self, s, p, k)
           /\ DOMAIN m_buckets' = DOMAIN m_buckets
           /\ \A b \in DOMAIN m_buckets :
                 /\ m_buckets'[b].dist_and_fingerprint = s[b].dist_and_fingerprint
                 /\ m_buckets'[b].value_idx =
                       IF s[b].dist_and_fingerprint # 0 /\ s[b].value_idx = Len(m_values) - 1
                       THEN i ELSE s[b].value_idx
           /\ Cardinality(Occupied(SelfNext)) = Cardinality(Occupied(Self)) - 1]_vars

\* an erase of the key at the head of a run: the two entries now in the home
\* bucket of the erased key and behind it hold smaller words than the erased
\* key had there, so both stood behind it and were moved back
ErasedHeadOfRun ==
    /\ last.op = "erase"
    /\ last.ret = 1
    /\ fault = "none"
    /\ size(Self) = 2
    /\ LET home == bucket_from_hash(Self, mixed_hash(Self, last.key))
       IN /\ m_buckets[home].dist_and_fingerprint # 0
          /\ m_buckets[home].dist_and_fingerprint
                < dist_and_fingerprint_from_hash(mixed_hash(Self, last.key))
          /\ m_buckets[home].dist_and_fingerprint \div BUCKET_DIST_INC = 1
          /\ m_buckets[next(Self, home)].dist_and_fingerprint \div BUCKET_DIST_INC = 2

\* the keys a PredMask stands for
PredOf(mask) == {k \in Keys : (mask \div 2 ^ (k - 1)) % 2 = 1}

\* C29: std::erase_if(map, pred) calls pred exactly once on every entry held
\* at the call, removes exactly the entries that satisfy it (every other entry
\* is still found with its mapped value), and returns the number of entries
\* removed: the size before minus the size after.
EraseIfContract ==
    [][last'.op = "erase_if" =>
        \A pred \in {PredOf(last'.n)} :
        \A r \in {erase_if(Self, pred)} :
           /\ fault' = "none"
           /\ Len(r.evaluated) = Len(m_values)
           /\ \A i \in 1..Len(m_values) :
                 Cardinality({j \in 1..Len(r.evaluated) : r.evaluated[j] = m_values[i][1]}) = 1
           /\ \A i \in 1..Len(m_values) :
                 IF m_values[i][1] \in pred
                 THEN do_find(SelfNext, m_values[i][1]) = Len(m_values')
                 ELSE /\ do_find(SelfNext, m_values[i][1]) < Len(m_values')
                      /\ ValueAt(SelfNext, do_find(SelfNext, m_values[i][1])) = m_values[i]
           /\ Len(m_values') =
                 Len(m_values) - Cardinality({i \in 1..Len(m_values) : m_values[i][1] \in pred})
           /\ last'.ret = Len(m_values) - Len(m_values')]_vars

\* the number of metadata arrays the two tables hold
ArraysHeld(a, b) ==
    (IF bucket_count(a) > 0 THEN 1 ELSE 0) + (IF bucket_count(b) > 0 THEN 1 ELSE 0)

\* C30: every metadata array is owned by one table at a time and is given back
\* once, with the bucket count it was allocated with: a swap or a destructor
\* calls deallocate only with the array the table owns and its count (or with
\* nullptr and 0), never with a start/end pair that describes no array of the
\* table, and the arrays held afterwards are those held before less the ones
\* given back.
MetadataOwnership ==
    [][last'.op \in {"swap", "~table"} =>
        /\ \A i \in 1..Len(last'.freed) : last'.freed[i] \in {"array", "null"}
        /\ ArraysHeld(SelfNext, other') =
              ArraysHeld(Self, other)
                 - Cardinality({i \in 1..Len(last'.freed) : last'.freed[i] = "array"})
        /\ last'.op = "swap" =>
              (m_buckets' = other.m_buckets /\ other'.m_buckets = m_buckets)]_vars

====
